---- MODULE Spec2Model ----
(***************************************************************************)
(* Model of smart_mouse.cpp: the match scorer (SmartVision::textSimilarity *)
(* and SmartVision::findBestMatch), the element synthesizer                *)
(* (SmartVision::analyzeScreen), the pointer injector                      *)
(* (ScreenController::moveMouse / click / doubleClick) and the automation  *)
(* controller (SmartMouse::updateScreen / clickOn / doubleClickOn /        *)
(* moveTo / commandMode, and main).                                        *)
(*                                                                         *)
(* Strings are sequences of one-character strings.  Scores are exact       *)
(* fractions kept as integer numerators: a base score is a numerator over  *)
(* SimDen, a final score a numerator over SimDen * 10 * 1000 (the boost is *)
(* in tenths, the confidence in tenths of a percent).  For the texts (up   *)
(* to three characters) and the confidences used here the float            *)
(* arithmetic of the source orders, equates and thresholds the scores      *)
(* exactly as the fractions do; this was established by running the two    *)
(* functions of the source over the whole input domain.                    *)
(***************************************************************************)
EXTENDS Integers, Sequences, FiniteSets, TLC

VARIABLES
    a, b, sim,                       \* textSimilarity: arguments and result
    elements, query, best, called,   \* findBestMatch: arguments and result
    pc, cmd, target, eof,            \* main / commandMode: position, locals, std::cin
    lastScreenshot, lastElements,    \* SmartMouse fields
    mouse, events, call,             \* pointer position, events of the last call, the last call
    captures, reads, spins           \* captureScreen calls, words read, iterations after a failed read

simVars   == <<a, b, sim>>
matchVars == <<elements, query, best, called>>
ctlVars   == <<pc, cmd, target, eof, lastScreenshot, lastElements,
               mouse, events, call, captures, reads, spins>>
vars      == <<a, b, sim, elements, query, best, called,
               pc, cmd, target, eof, lastScreenshot, lastElements,
               mouse, events, call, captures, reads, spins>>

----------------------------------------------------------------------------
(* Bounds *)

MaxLen == 2        \* longest text / query of the scorer specifications
MaxElems == 2      \* longest candidate sequence handed to findBestMatch
MaxCmds == 2       \* most command words std::cin delivers
MaxSpin == 2       \* loop iterations followed after the read has failed

----------------------------------------------------------------------------
(* Strings *)

Chars == {"a", "b", "B"}

RECURSIVE StrUpTo(_)
StrUpTo(n) ==
    IF n = 0 THEN {<<>>}
    ELSE LET S == StrUpTo(n - 1)
         IN  S \cup {Append(s, c) : s \in {t \in S : Len(t) = n - 1}, c \in Chars}

Str == StrUpTo(MaxLen)

tolower(c) == IF c = "B" THEN "b" ELSE IF c = "A" THEN "a" ELSE c

ToLowerStr(s) == [i \in 1..Len(s) |-> tolower(s[i])]

npos == -1

(* std::string::find(const string&): 0-based position of the first
   occurrence, npos when there is none; the empty needle is found at 0 *)
find(hay, needle) ==
    LET P == {i \in 0..(Len(hay) - Len(needle)) :
                 SubSeq(hay, i + 1, i + Len(needle)) = needle}
    IN  IF P = {} THEN npos ELSE CHOOSE i \in P : \A j \in P : i <= j

(* std::string::find(char) *)
findChar(hay, c) ==
    LET P == {i \in 0..(Len(hay) - 1) : hay[i + 1] = c}
    IN  IF P = {} THEN npos ELSE CHOOSE i \in P : \A j \in P : i <= j

Max(x, y) == IF x >= y THEN x ELSE y

----------------------------------------------------------------------------
(* Scores *)

RECURSIVE Gcd(_, _)
Gcd(x, y) == IF y = 0 THEN x ELSE Gcd(y, x % y)

Lcm(x, y) == (x * y) \div Gcd(x, y)

RECURSIVE LcmUpTo(_)
LcmUpTo(n) == IF n <= 1 THEN 1 ELSE Lcm(n, LcmUpTo(n - 1))

(* denominator of a base score: every matches / max(length) with lengths
   up to MaxLen, and 0.9, is an integer number of 1 / SimDen *)
SimDen == Lcm(10, LcmUpTo(MaxLen))

ScoreDen == SimDen * 10 * 1000

SubstringScore == (9 * SimDen) \div 10     \* 0.9f

Threshold == (3 * ScoreDen) \div 10        \* 0.3f

NoScore == -1

(* the loop of textSimilarity: characters of s that occur in t *)
RECURSIVE CountIn(_, _, _)
CountIn(s, t, i) ==
    IF i = 0 THEN 0
    ELSE CountIn(s, t, i - 1) + (IF findChar(t, s[i]) # npos THEN 1 ELSE 0)

textSimilarityOverB(x, y) ==
    LET lowerA == ToLowerStr(x)
        lowerB == ToLowerStr(y)
    IN  IF find(lowerA, lowerB) # npos \/ find(lowerB, lowerA) # npos
        THEN SubstringScore
        ELSE (CountIn(lowerB, lowerA, Len(lowerB)) * SimDen)
                 \div Max(Len(lowerA), Len(lowerB))

textSimilarity(x, y) ==
    LET lowerA == ToLowerStr(x)
        lowerB == ToLowerStr(y)
    IN  IF find(lowerA, lowerB) # npos \/ find(lowerB, lowerA) # npos
        THEN SubstringScore
        ELSE (CountIn(lowerA, lowerB, Len(lowerA)) * SimDen)
                 \div Max(Len(lowerA), Len(lowerB))

----------------------------------------------------------------------------
(* Specification of textSimilarity: the arguments are drawn in the initial
   state, the action applies the function *)

CtlIdle ==
    /\ pc = "off" /\ cmd = "" /\ target = <<>> /\ eof = FALSE
    /\ lastScreenshot = [words |-> <<>>, contours |-> <<>>]
    /\ lastElements = <<>>
    /\ mouse = [x |-> 0, y |-> 0]
    /\ events = <<>>
    /\ call = [op |-> "none", target |-> <<>>, rightClick |-> FALSE,
               elem |-> 0, ret |-> FALSE]
    /\ captures = 0 /\ reads = 0 /\ spins = 0

MatchIdle == elements = <<>> /\ query = <<>> /\ best = 0 /\ called = FALSE

SimIdle == a = <<>> /\ b = <<>> /\ sim = NoScore

SimInit ==
    /\ a \in Str /\ b \in Str /\ sim = NoScore
    /\ MatchIdle /\ CtlIdle

CallTextSimilarity ==
    /\ sim = NoScore
    /\ sim' = textSimilarity(a, b)
    /\ UNCHANGED <<a, b>>
    /\ UNCHANGED matchVars /\ UNCHANGED ctlVars

SimNext == CallTextSimilarity

SpecSim == SimInit /\ [][SimNext]_vars

----------------------------------------------------------------------------
(* findBestMatch *)

ButtonBoost == 12                  \* 1.2f, in tenths

NoBoost == 10

(* lines 298-304: the final score of one candidate, over ScoreDen *)
finalScore(elem, q) ==
    textSimilarity(elem.text, q)
        * (IF elem.type = "button" THEN ButtonBoost ELSE NoBoost)
        * elem.confidence

(* lines 294-310: best (an index, 0 for nullptr) and bestScore after the
   first i candidates *)
RECURSIVE bestAfterGe(_, _, _)
bestAfterGe(elems, q, i) ==
    IF i = 0 THEN [best |-> 0, bestScore |-> 0]
    ELSE LET prev  == bestAfterGe(elems, q, i - 1)
             score == finalScore(elems[i], q)
         IN  IF score >= prev.bestScore
             THEN [best |-> i, bestScore |-> score]
             ELSE prev

RECURSIVE bestAfter(_, _, _)
bestAfter(elems, q, i) ==
    IF i = 0 THEN [best |-> 0, bestScore |-> 0]
    ELSE LET prev  == bestAfter(elems, q, i - 1)
             score == finalScore(elems[i], q)
         IN  IF score > prev.bestScore
             THEN [best |-> i, bestScore |-> score]
             ELSE prev

findBestMatchGe(elems, q) ==
    LET r == bestAfter(elems, q, Len(elems))
    IN  IF r.bestScore >= Threshold THEN r.best ELSE 0

findBestMatch(elems, q) ==
    LET r == bestAfter(elems, q, Len(elems))
    IN  IF r.bestScore > Threshold THEN r.best ELSE 0

(* candidates handed to findBestMatch: texts that give every base score
   (0, 1/2, 0.9, 1) against the queries, either kind, confidences 30 and 60
   (Text) and 0.7 and 70 (Button), in tenths of a percent *)
UnitRect == [x |-> 0, y |-> 0, width |-> 2, height |-> 2]

Texts == {<<>>, <<"b">>, <<"a", "b">>, <<"a", "B">>, <<"b", "b">>}

Candidates ==
    [bounds : {UnitRect}, text : Texts, type : {"text"}, confidence : {300, 600}]
    \cup
    [bounds : {UnitRect}, text : Texts, type : {"button"}, confidence : {7, 700}]

MatchInit ==
    /\ elements = <<>> /\ query \in Str /\ best = 0 /\ called = FALSE
    /\ SimIdle /\ CtlIdle

PushElement ==
    /\ ~called
    /\ Len(elements) < MaxElems
    /\ \E e \in Candidates : elements' = Append(elements, e)
    /\ UNCHANGED <<query, best, called>>
    /\ UNCHANGED simVars /\ UNCHANGED ctlVars

CallFindBestMatch ==
    /\ ~called
    /\ best' = findBestMatch(elements, query)
    /\ called' = TRUE
    /\ UNCHANGED <<elements, query>>
    /\ UNCHANGED simVars /\ UNCHANGED ctlVars

MatchNext == PushElement \/ CallFindBestMatch

SpecMatch == MatchInit /\ [][MatchNext]_vars

----------------------------------------------------------------------------
(* Frames.  A frame is what the collaborators report for it: the words of
   the OCR engine's word iterator, in its order (text or nullptr,
   confidence in tenths of a percent, whether BoundingBox filled the box,
   the box x1 y1 x2 y2), and the bounding rectangles of the contours, in the
   detector's order, each with the text GetUTF8Text returns for that crop
   (or nullptr). *)

Box(x1, y1, x2, y2) == [x1 |-> x1, y1 |-> y1, x2 |-> x2, y2 |-> y2]

Rect(x, y, w, h) == [x |-> x, y |-> y, width |-> w, height |-> h]

Word(isNull, text, conf, bounded, box) ==
    [null |-> isNull, text |-> text, conf |-> conf, bounded |-> bounded, box |-> box]

wordOk      == Word(FALSE, <<"a", "B">>, 900, TRUE,  Box(10, 10, 30, 20))
wordFar     == Word(FALSE, <<"a", "b">>, 900, TRUE,  Box(60, 40, 90, 50))
wordFlat    == Word(FALSE, <<"a", "b">>, 900, TRUE,  Box(40, 10, 40, 20))   \* x2 = x1
wordNull    == Word(TRUE,  <<>>,         0,   TRUE,  Box(0, 0, 0, 0))       \* nullptr text
wordUnbound == Word(FALSE, <<"b">>,      300, FALSE, Box(0, 0, 0, 0))       \* not bounded

Contour(rect, isNull, text) == [rect |-> rect, null |-> isNull, text |-> text]

contourButton == Contour(Rect(100, 100, 60, 30), FALSE, <<"a", "b">>)
contourTall   == Contour(Rect(0, 0, 50, 60), FALSE, <<"a", "b">>)           \* taller than wide
contourBlank  == Contour(Rect(200, 100, 80, 40), TRUE, <<>>)                \* crop without text

Frame(words, contours) == [words |-> words, contours |-> contours]

(* the screens the display shows *)
Frames ==
    { Frame(<<>>, <<>>),
      Frame(<<wordOk>>, <<>>),
      Frame(<<wordFar, wordOk>>, <<contourButton>>),
      Frame(<<wordFlat, wordOk>>, <<contourTall, contourBlank>>),
      Frame(<<wordNull, wordUnbound>>, <<contourButton>>),
      Frame(<<wordNull>>, <<contourBlank, contourButton>>) }

(* what the uninitialized x1, y1, x2, y2 of detectTextRegions may hold when
   BoundingBox fills nothing *)
Junk == {Box(30, 30, 30, 30), Box(50, 40, 20, 60)}

EmptyMat == [words |-> <<>>, contours |-> <<>>]

----------------------------------------------------------------------------
(* SmartVision: the synthesizer *)

RECURSIVE detectButtonRegionsFrom(_, _)
detectButtonRegionsFrom(contours, i) ==
    IF i = 0 THEN <<>>
    ELSE LET rect == contours[i].rect
             rest == detectButtonRegionsFrom(contours, i - 1)
         IN  IF /\ rect.width > 40 /\ rect.width < 400
                /\ rect.height > 20 /\ rect.height < 100
                /\ rect.width > rect.height
             THEN Append(rest, contours[i])
             ELSE rest

(* the accepted contours, each still with the text of its crop *)
detectButtonRegions(img) == detectButtonRegionsFrom(img.contours, Len(img.contours))

RECURSIVE detectTextRegionsFrom(_, _, _)
detectTextRegionsFrom(words, junk, i) ==
    IF i = 0 THEN <<>>
    ELSE LET w    == words[i]
             bx   == IF w.bounded THEN w.box ELSE junk
             rest == detectTextRegionsFrom(words, junk, i - 1)
         IN  IF w.null THEN rest
             ELSE Append(rest,
                         [bounds     |-> Rect(bx.x1, bx.y1, bx.x2 - bx.x1, bx.y2 - bx.y1),
                          text       |-> w.text,
                          type       |-> "text",
                          confidence |-> w.conf])

detectTextRegions(img, junk) == detectTextRegionsFrom(img.words, junk, Len(img.words))

ButtonConfidence == 7              \* 0.7f, in tenths of a percent

buttonElement(c, confidence) ==
    [bounds     |-> c.rect,
     text       |-> IF c.null THEN <<>> ELSE c.text,
     type       |-> "button",
     confidence |-> confidence]

analyzeScreenConf70(screenshot, junk) ==
    LET buttonRects == detectButtonRegions(screenshot)
    IN  detectTextRegions(screenshot, junk)
          \o [i \in 1..Len(buttonRects) |-> buttonElement(buttonRects[i], 700)]

analyzeScreen(screenshot, junk) ==
    LET buttonRects == detectButtonRegions(screenshot)
    IN  detectTextRegions(screenshot, junk)
          \o [i \in 1..Len(buttonRects) |-> buttonElement(buttonRects[i], ButtonConfidence)]

(* int division of C++: the quotient is truncated toward zero *)
CDiv(x, y) == IF x >= 0 THEN x \div y ELSE -((-x) \div y)

center(elem) ==
    [x |-> elem.bounds.x + CDiv(elem.bounds.width, 2),
     y |-> elem.bounds.y + CDiv(elem.bounds.height, 2)]

----------------------------------------------------------------------------
(* ScreenController: the pointer events a call issues, in order.  A move
   carries its coordinates; a button event carries its button and the
   coordinates of the move before it, where the server delivers it. *)

Event(ev, x, y, button) == [ev |-> ev, x |-> x, y |-> y, button |-> button]

moveMouse(x, y) == << Event("move", x, y, "none") >>

click(x, y, rightClick) ==
    LET button == IF rightClick THEN "right" ELSE "left"
    IN  moveMouse(x, y)
          \o << Event("down", x, y, button), Event("up", x, y, button) >>

doubleClickOnce(x, y) == click(x, y, FALSE)

doubleClick(x, y) == click(x, y, FALSE) \o click(x, y, FALSE)

(* where the pointer is after the events *)
RECURSIVE pointerAfter(_, _, _)
pointerAfter(evs, at, i) ==
    IF i = 0 THEN at
    ELSE IF evs[i].ev = "move" THEN [x |-> evs[i].x, y |-> evs[i].y]
    ELSE pointerAfter(evs, at, i - 1)

----------------------------------------------------------------------------
(* SmartMouse *)

Queries == {<<"a", "b">>, <<"b", "b">>}

NoCall == [op |-> "none", target |-> <<>>, rightClick |-> FALSE,
           elem |-> 0, ret |-> FALSE]

Call(op, tgt, rightClick, elem, ret) ==
    [op |-> op, target |-> tgt, rightClick |-> rightClick, elem |-> elem, ret |-> ret]

(* what one captureScreen and the analysis of it may meet: a frame and, when
   a word of it is not bounded, the values left in x1, y1, x2, y2 *)
Captures ==
    {<<f, j>> \in Frames \X Junk :
        \/ \E i \in 1..Len(f.words) : ~f.words[i].null /\ ~f.words[i].bounded
        \/ j = Box(30, 30, 30, 30)}

updateScreenMerge(frame, junk) ==
    /\ lastScreenshot' = frame
    /\ lastElements' = lastElements \o analyzeScreen(frame, junk)
    /\ captures' = captures + 1

updateScreen(frame, junk) ==
    /\ lastScreenshot' = frame
    /\ lastElements' = analyzeScreen(frame, junk)
    /\ captures' = captures + 1

clickOnUnguarded(frame, junk, tgt, rightClick) ==
    /\ updateScreen(frame, junk)
    /\ LET elem == findBestMatch(lastElements', tgt)
       IN  /\ events' = IF elem # 0
                        THEN click(center(lastElements'[elem]).x,
                                   center(lastElements'[elem]).y, rightClick)
                        ELSE click(0, 0, rightClick)
           /\ call' = Call("clickOn", tgt, rightClick, elem, elem # 0)
    /\ mouse' = pointerAfter(events', mouse, Len(events'))

clickOn(frame, junk, tgt, rightClick) ==
    /\ updateScreen(frame, junk)
    /\ LET elem == findBestMatch(lastElements', tgt)
       IN  /\ events' = IF elem # 0
                        THEN click(center(lastElements'[elem]).x,
                                   center(lastElements'[elem]).y, rightClick)
                        ELSE <<>>
           /\ call' = Call("clickOn", tgt, rightClick, elem, elem # 0)
    /\ mouse' = pointerAfter(events', mouse, Len(events'))

doubleClickOn(frame, junk, tgt) ==
    /\ updateScreen(frame, junk)
    /\ LET elem == findBestMatch(lastElements', tgt)
       IN  /\ events' = IF elem # 0
                        THEN doubleClick(center(lastElements'[elem]).x,
                                         center(lastElements'[elem]).y)
                        ELSE <<>>
           /\ call' = Call("doubleClickOn", tgt, FALSE, elem, elem # 0)
    /\ mouse' = pointerAfter(events', mouse, Len(events'))

(* moveTo returns nothing: ret stays FALSE *)
moveTo(frame, junk, tgt) ==
    /\ updateScreen(frame, junk)
    /\ LET elem == findBestMatch(lastElements', tgt)
       IN  /\ events' = IF elem # 0
                        THEN moveMouse(center(lastElements'[elem]).x,
                                       center(lastElements'[elem]).y)
                        ELSE <<>>
           /\ call' = Call("moveTo", tgt, FALSE, elem, FALSE)
    /\ mouse' = pointerAfter(events', mouse, Len(events'))

(* "refresh": updateScreen alone *)
refresh(frame, junk) ==
    /\ updateScreen(frame, junk)
    /\ events' = <<>>
    /\ call' = Call("updateScreen", <<>>, FALSE, 0, FALSE)
    /\ mouse' = mouse

(* "show": updateScreen, then showDetections, which draws lastElements on a
   copy of lastScreenshot and changes nothing *)
show(frame, junk) ==
    /\ updateScreen(frame, junk)
    /\ events' = <<>>
    /\ call' = Call("showDetections", <<>>, FALSE, 0, FALSE)
    /\ mouse' = mouse

----------------------------------------------------------------------------
(* commandMode.  One action is one iteration of the loop: the extraction of
   the command word, then the branch taken.  std::cin >> cmd either
   delivers a word or fails (end of input), and a failed extraction leaves
   cmd as it was and the stream failed for good; std::getline either
   delivers the rest of the line, here one query, or fails and leaves
   target as it was. *)

LineReads ==
    {[ok |-> TRUE, line |-> q] : q \in Queries} \cup {[ok |-> FALSE, line |-> <<>>]}

(* std::cin >> cmd, with word the word the stream holds when ok *)
extractCmd(ok, word) ==
    /\ pc = "loop"
    /\ IF ok THEN ~eof /\ reads < MaxCmds ELSE spins < MaxSpin
    /\ cmd' = IF ok THEN word ELSE cmd
    /\ reads' = IF ok THEN reads + 1 ELSE reads
    /\ spins' = IF ok THEN spins ELSE spins + 1

(* std::getline(std::cin >> std::ws, target) after the extraction above *)
getTarget(ok, lr) ==
    /\ (~ok => ~lr.ok)
    /\ target' = IF lr.ok THEN lr.line ELSE target
    /\ eof' = (eof \/ ~ok \/ ~lr.ok)

CmdQuit ==
    /\ \E ok \in BOOLEAN : extractCmd(ok, "quit")
    /\ cmd' = "quit"
    /\ pc' = "exit"
    /\ UNCHANGED <<target, eof, lastScreenshot, lastElements, mouse, events, call, captures>>
    /\ UNCHANGED simVars /\ UNCHANGED matchVars

CmdShow ==
    /\ \E ok \in BOOLEAN :
          /\ extractCmd(ok, "show")
          /\ eof' = (eof \/ ~ok)
    /\ cmd' = "show"
    /\ \E c \in Captures : show(c[1], c[2])
    /\ UNCHANGED <<pc, target>>
    /\ UNCHANGED simVars /\ UNCHANGED matchVars

CmdRefresh ==
    /\ \E ok \in BOOLEAN :
          /\ extractCmd(ok, "refresh")
          /\ eof' = (eof \/ ~ok)
    /\ cmd' = "refresh"
    /\ \E c \in Captures : refresh(c[1], c[2])
    /\ UNCHANGED <<pc, target>>
    /\ UNCHANGED simVars /\ UNCHANGED matchVars

CmdClick ==
    /\ \E ok \in BOOLEAN, lr \in LineReads :
          /\ extractCmd(ok, "click")
          /\ getTarget(ok, lr)
    /\ cmd' = "click"
    /\ \E c \in Captures : clickOn(c[1], c[2], target', FALSE)
    /\ UNCHANGED pc
    /\ UNCHANGED simVars /\ UNCHANGED matchVars

CmdRight ==
    /\ \E ok \in BOOLEAN, lr \in LineReads :
          /\ extractCmd(ok, "right")
          /\ getTarget(ok, lr)
    /\ cmd' = "right"
    /\ \E c \in Captures : clickOn(c[1], c[2], target', TRUE)
    /\ UNCHANGED pc
    /\ UNCHANGED simVars /\ UNCHANGED matchVars

CmdDouble ==
    /\ \E ok \in BOOLEAN, lr \in LineReads :
          /\ extractCmd(ok, "double")
          /\ getTarget(ok, lr)
    /\ cmd' = "double"
    /\ \E c \in Captures : doubleClickOn(c[1], c[2], target')
    /\ UNCHANGED pc
    /\ UNCHANGED simVars /\ UNCHANGED matchVars

CmdMove ==
    /\ \E ok \in BOOLEAN, lr \in LineReads :
          /\ extractCmd(ok, "move")
          /\ getTarget(ok, lr)
    /\ cmd' = "move"
    /\ \E c \in Captures : moveTo(c[1], c[2], target')
    /\ UNCHANGED pc
    /\ UNCHANGED simVars /\ UNCHANGED matchVars

(* any other word, and the empty cmd of a stream that never held a word *)
CmdUnknown ==
    /\ \E ok \in BOOLEAN :
          /\ extractCmd(ok, "bogus")
          /\ eof' = (eof \/ ~ok)
    /\ cmd' \in {"bogus", ""}
    /\ UNCHANGED <<pc, target, lastScreenshot, lastElements, mouse, events, call, captures>>
    /\ UNCHANGED simVars /\ UNCHANGED matchVars

----------------------------------------------------------------------------
(* main *)

(* program click <query> *)
MainClick ==
    /\ pc = "main"
    /\ \E q \in Queries, c \in Captures : clickOn(c[1], c[2], q, FALSE)
    /\ pc' = "exit"
    /\ UNCHANGED <<cmd, target, eof, reads, spins>>
    /\ UNCHANGED simVars /\ UNCHANGED matchVars

(* program show *)
MainShow ==
    /\ pc = "main"
    /\ \E c \in Captures : show(c[1], c[2])
    /\ pc' = "exit"
    /\ UNCHANGED <<cmd, target, eof, reads, spins>>
    /\ UNCHANGED simVars /\ UNCHANGED matchVars

(* program click, or any other first argument: nothing is done *)
MainOther ==
    /\ pc = "main"
    /\ pc' = "exit"
    /\ UNCHANGED <<cmd, target, eof, lastScreenshot, lastElements, mouse, events,
                   call, captures, reads, spins>>
    /\ UNCHANGED simVars /\ UNCHANGED matchVars

(* no argument: commandMode *)
MainInteractive ==
    /\ pc = "main"
    /\ pc' = "loop"
    /\ UNCHANGED <<cmd, target, eof, lastScreenshot, lastElements, mouse, events,
                   call, captures, reads, spins>>
    /\ UNCHANGED simVars /\ UNCHANGED matchVars

Init ==
    /\ pc = "main" /\ cmd = "" /\ target = <<>> /\ eof = FALSE
    /\ lastScreenshot = EmptyMat
    /\ lastElements = <<>>
    /\ mouse \in {[x |-> 0, y |-> 0], [x |-> 7, y |-> 7]}
    /\ events = <<>>
    /\ call = NoCall
    /\ captures = 0 /\ reads = 0 /\ spins = 0
    /\ SimIdle /\ MatchIdle

Next ==
    \/ MainClick \/ MainShow \/ MainOther \/ MainInteractive
    \/ CmdQuit \/ CmdShow \/ CmdRefresh \/ CmdClick \/ CmdRight
    \/ CmdDouble \/ CmdMove \/ CmdUnknown

Spec == Init /\ [][Next]_vars

----------------------------------------------------------------------------
(* Properties of the scorer *)

SameLetter(c, d) == tolower(c) = tolower(d)

Occurs(c, s) == \E j \in 1..Len(s) : SameLetter(c, s[j])

(* t occurs in s as a block of consecutive characters, case ignored *)
Contains(s, t) ==
    \E i \in 0..(Len(s) - Len(t)) : \A k \in 1..Len(t) : SameLetter(s[i + k], t[k])

NeitherContains(s, t) == ~Contains(s, t) /\ ~Contains(t, s)

QueryCharsInText(text, q) == Cardinality({i \in 1..Len(q) : Occurs(q[i], text)})

TextCharsInQuery(text, q) == Cardinality({i \in 1..Len(text) : Occurs(text[i], q)})

ScoreOf(i) == finalScore(elements[i], query)

TopScore ==
    LET S == {ScoreOf(i) : i \in 1..Len(elements)} \cup {0}
    IN  CHOOSE m \in S : \A n \in S : n <= m

(* a final score v, over ScoreDen, is above 0.3 *)
Above03(v) == 10 * v > 3 * ScoreDen

(* C1: findBestMatch answers "no match" (0) when the highest final score is
   0.3 or lower, in particular for no candidates at all, and otherwise
   answers a candidate that holds the highest final score. *)
C1_ThresholdLaw ==
    called =>
        /\ (elements = <<>> => best = 0)
        /\ (~Above03(TopScore) => best = 0)
        /\ (Above03(TopScore) => best \in 1..Len(elements) /\ ScoreOf(best) = TopScore)

C1_Witness ==
    /\ called /\ elements # <<>>
    /\ 10 * TopScore = 3 * ScoreDen
    /\ best = 0

(* C2: when several candidates hold the highest final score and it is above
   0.3, findBestMatch answers the one that comes first in the sequence. *)
C2_TieBreakLaw ==
    (called /\ Above03(TopScore)) =>
        /\ best \in 1..Len(elements)
        /\ ScoreOf(best) = TopScore
        /\ \A j \in 1..(best - 1) : ScoreOf(j) < TopScore

C2_Witness ==
    /\ called /\ Above03(TopScore)
    /\ \E i, j \in 1..Len(elements) :
          i < j /\ ScoreOf(i) = TopScore /\ ScoreOf(j) = TopScore /\ best = i

(* C3, as stated: when neither string contains the other, the base score of
   candidate text a against query b is the number of characters of the
   QUERY b that occur in a, over the larger length. *)
C3_CountsQueryChars ==
    (sim # NoScore /\ NeitherContains(a, b)) =>
        sim * Max(Len(a), Len(b)) = QueryCharsInText(a, b) * SimDen

(* C3, amended: when neither string contains the other, the base score of
   candidate text a against query b is the number of characters of the
   CANDIDATE TEXT a that occur in b, over the larger length. *)
C3_CountsTextChars ==
    (sim # NoScore /\ NeitherContains(a, b)) =>
        sim * Max(Len(a), Len(b)) = TextCharsInQuery(a, b) * SimDen

C3_Witness ==
    /\ sim # NoScore /\ NeitherContains(a, b)
    /\ QueryCharsInText(a, b) # TextCharsInQuery(a, b)
    /\ sim * Max(Len(a), Len(b)) = TextCharsInQuery(a, b) * SimDen

(* C4: a candidate with the empty text has base score 0 against a non-empty
   query and is never the answer of findBestMatch. *)
C4_EmptyTextNeverMatches ==
    (called /\ query # <<>>) =>
        \A i \in 1..Len(elements) :
            elements[i].text = <<>> =>
                /\ textSimilarity(elements[i].text, query) = 0
                /\ best # i

----------------------------------------------------------------------------
(* Properties of the controller *)

MatchOps == {"clickOn", "doubleClickOn", "moveTo"}

(* C5: a call of clickOn, doubleClickOn or moveTo whose findBestMatch finds
   no candidate issues no pointer event, leaves the pointer where it was,
   and (clickOn, doubleClickOn) returns false. *)
C5_NoMatchNoPointerEvent ==
    [][ (captures' # captures /\ call'.op \in MatchOps /\ call'.elem = 0)
          => (events' = <<>> /\ mouse' = mouse /\ call'.ret = FALSE) ]_vars

C5_Witness ==
    /\ call.op \in MatchOps /\ call.elem = 0
    /\ lastElements # <<>>
    /\ events = <<>> /\ call.ret = FALSE
    /\ mouse = [x |-> 7, y |-> 7]

TraceOfClick(at, button) ==
    << [ev |-> "move", x |-> at.x, y |-> at.y, button |-> "none"],
       [ev |-> "down", x |-> at.x, y |-> at.y, button |-> button],
       [ev |-> "up",   x |-> at.x, y |-> at.y, button |-> button] >>

(* C6: on a match, clickOn issues move to the candidate's center, down, up
   of the requested button; doubleClickOn issues the left-button move, down,
   up twice at that center; moveTo issues the one move. *)
C6_PointerTrace ==
    (call.op \in MatchOps /\ call.elem # 0) =>
        LET at == center(lastElements[call.elem])
        IN  /\ call.op = "clickOn" =>
                events = TraceOfClick(at, IF call.rightClick THEN "right" ELSE "left")
            /\ call.op = "doubleClickOn" =>
                events = TraceOfClick(at, "left") \o TraceOfClick(at, "left")
            /\ call.op = "moveTo" =>
                events = << [ev |-> "move", x |-> at.x, y |-> at.y, button |-> "none"] >>
            /\ mouse = at

C6_Witness ==
    /\ call.op = "doubleClickOn" /\ call.elem # 0
    /\ Len(events) = 6
    /\ events[4].ev = "move" /\ events[3].ev = "up"
    /\ mouse = center(lastElements[call.elem])

(* this step ran an iteration of commandMode that took the branch of word w *)
Executed(w) == (reads' # reads \/ spins' # spins) /\ cmd' = w

CaptureStep ==
    \/ Executed("click") \/ Executed("right") \/ Executed("double")
    \/ Executed("move") \/ Executed("refresh")
    \/ (pc = "main" /\ call'.op = "clickOn")

FreshElements ==
    /\ (captures = 0 => lastElements = <<>>)
    /\ (captures > 0 => \E j \in Junk : lastElements = analyzeScreen(lastScreenshot, j))
    /\ call.elem \in 0..Len(lastElements)

(* C7: every call of clickOn, doubleClickOn, moveTo and refresh captures
   exactly once, the stored candidates are always exactly those of the frame
   captured last, and the candidate acted upon is one of them. *)
C7_FreshCycle ==
    /\ []FreshElements
    /\ [][ CaptureStep => captures' = captures + 1 ]_vars

C7_Witness ==
    /\ captures >= 2
    /\ call.op = "clickOn" /\ call.elem = 1
    /\ Len(lastElements) = 1
    /\ lastScreenshot = Frame(<<wordOk>>, <<>>)

(* C8: every candidate the synthesizer emits has a positive width and a
   positive height. *)
C8_PositiveArea ==
    \A i \in 1..Len(lastElements) :
        lastElements[i].bounds.width > 0 /\ lastElements[i].bounds.height > 0

(* C9: every Button candidate of the synthesizer has confidence 0.7, so its
   final score is at most 1.2 * 0.007 and below 0.3; findBestMatch never
   answers a Button, and every pointer event goes to the center of a Text
   candidate. *)
C9_ButtonsNeverMatch ==
    /\ \A i \in 1..Len(lastElements) :
          lastElements[i].type = "button" =>
              /\ lastElements[i].confidence = 7
              /\ 10000 * finalScore(lastElements[i], call.target) <= 84 * ScoreDen
              /\ ~Above03(finalScore(lastElements[i], call.target))
    /\ call.elem # 0 =>
          /\ lastElements[call.elem].type = "text"
          /\ \A k \in 1..Len(events) :
                /\ events[k].x = center(lastElements[call.elem]).x
                /\ events[k].y = center(lastElements[call.elem]).y

C9_Witness ==
    /\ call.op \in MatchOps /\ call.elem = 0 /\ events = <<>>
    /\ \E i \in 1..Len(lastElements) :
          /\ lastElements[i].type = "button"
          /\ lastElements[i].text = call.target
          /\ \A j \in 1..Len(lastElements) :
                finalScore(lastElements[j], call.target)
                    <= finalScore(lastElements[i], call.target)

(* C10: commandMode runs at most one operation per command word read: an
   iteration that reads no word leaves the loop and captures nothing and
   issues no pointer event. *)
C10_NoWordNoOperation ==
    [][ (pc = "loop" /\ reads' = reads)
          => (pc' = "exit" /\ captures' = captures
              /\ events' = events /\ mouse' = mouse) ]_vars

====
